---- MODULE Spec2Model ----
(***************************************************************************)
(* Model of the NXP PCF85363 / PCF85263 real-time-clock drivers            *)
(* (src/rtc-pcf85363.c, src/rtc-pcf85263.c).                               *)
(*                                                                         *)
(* The device is a bank of byte registers reached through regmap bus       *)
(* transactions.  A host thread issues the rtc / nvram operations one at a *)
(* time; every bus transaction of an operation is one step, and may fail.  *)
(* The interrupt handler runs in its own context and its transactions      *)
(* interleave freely with those of the host thread: the drivers take no    *)
(* lock of their own.  The device latches the alarm-1 flag by itself while *)
(* at least one alarm-1 match-enable bit is set.  The counting of the      *)
(* clock is not modelled: date/time registers change by bus writes only.   *)
(***************************************************************************)
EXTENDS Integers, Naturals, Sequences, FiniteSets, TLC

VARIABLES
    reg,        \* device registers: address -> byte
    hostTimes,  \* the rtc_time values the caller passes to set_time
    hostAlarms, \* the rtc_wkalrm values the caller passes to set_alarm
    hostNv,     \* the (offset, bytes) pairs the caller passes to the nvram operations
    hpc,        \* host thread: position inside the running operation
    hvia,       \* host thread: call site of _pcf85363_rtc_alarm_irq_enable
    hop,        \* host thread: the running (or last) operation and its arguments
    hret,       \* host thread: return value of the last finished operation
    hres,       \* host thread: values the last operation stored for its caller
    hbus,       \* bus transactions issued so far by the running (or last) operation
    hoff,       \* the alarm was fully off at some point of the running (or last) operation
    hprev,      \* the operation finished before the running (or last) one, if it
                \* was a successful set_time, set_alarm or nvram_write
    ipc,        \* interrupt handler: position
    iflags,     \* interrupt handler: local variable flags
    iret,       \* interrupt handler: last return value
    ievent,     \* interrupt handler: rtc_update_irq was called by the last run
    ibus        \* bus transactions issued by the running (or last) handler run

vars == <<reg, hostTimes, hostAlarms, hostNv, hpc, hvia, hop, hret, hres, hbus, hoff,
          hprev, ipc, iflags, iret, ievent, ibus>>

hostVars == <<hpc, hvia, hop, hret, hres, hbus, hoff, hprev>>
irqVars == <<ipc, iflags, iret, ievent, ibus>>
envVars == <<hostTimes, hostAlarms, hostNv>>

(***************************************************************************)
(* Register map                                                            *)
(***************************************************************************)
DT_100THS == 0
DT_SECS == 1
DT_MINUTES == 2
DT_HOURS == 3
DT_DAYS == 4
DT_WEEKDAYS == 5
DT_MONTHS == 6
DT_YEARS == 7
DT_SECOND_ALM1 == 8
DT_MONTH_ALM1 == 12
DT_MINUTE_ALM2 == 13
DT_WEEKDAY_ALM2 == 15
DT_ALARM_EN == 16
CTRL_INTA_EN == 41
CTRL_FLAGS == 43
CTRL_STOP_EN == 46
CTRL_RESETS == 47
CTRL_RAM == 64

BIT(n) == 2 ^ n

ALRM_SEC_A1E == BIT(0)
ALRM_MIN_A1E == BIT(1)
ALRM_HR_A1E == BIT(2)
ALRM_DAY_A1E == BIT(3)
ALRM_MON_A1E == BIT(4)
INT_A1IE == BIT(4)
\* Mutant: the alarm-2 flag taken for the alarm-1 flag.
FlagsWrongBit == BIT(6)

FLAGS_A1F == BIT(5)
\* Mutant: the stop bit written to the wrong position.
StopWrongBit == BIT(1)

STOP_EN_STOP == BIT(0)
RESET_CPR == 164
NVRAM_SIZE == 64

\* The registers the model keeps: date/time, alarms, alarm enable, the four
\* control registers the drivers touch, and the scratch memory bank.
Addrs == (DT_100THS .. DT_ALARM_EN)
            \cup {CTRL_INTA_EN, CTRL_FLAGS, CTRL_STOP_EN, CTRL_RESETS}
            \cup (CTRL_RAM .. (CTRL_RAM + NVRAM_SIZE - 1))

(***************************************************************************)
(* Bit operations on bytes                                                 *)
(***************************************************************************)
RECURSIVE And(_, _)
And(a, b) == IF a = 0 \/ b = 0 THEN 0
             ELSE (a % 2) * (b % 2) + 2 * And(a \div 2, b \div 2)

Or(a, b) == a + b - And(a, b)

\* a & ~m on a byte
AndNot(a, m) == a - And(a, m)

(***************************************************************************)
(* linux/bcd.h as the drivers use it: the argument and the result are      *)
(* unsigned char                                                           *)
(***************************************************************************)
bcd2bin(val) == And(val, 15) + (val \div 16) * 10

bin2bcd(val) == (((val % 256) \div 10) * 16 + ((val % 256) % 10)) % 256

(***************************************************************************)
(* regmap transactions.  Each yields the set of its possible outcomes:     *)
(* [ok, reg] with reg the registers afterwards.  A failed single-register  *)
(* transaction changes nothing; a failed bulk write has stored some proper *)
(* prefix of its bytes.  Writes outside the modelled registers are         *)
(* dropped.                                                                *)
(***************************************************************************)
Store(r, a, v) == IF a \in Addrs THEN [r EXCEPT ![a] = v] ELSE r

RECURSIVE StoreSeq(_, _, _, _)
StoreSeq(r, a, bytes, k) ==
    IF k = 0 THEN r
    ELSE Store(StoreSeq(r, a, bytes, k - 1), a + k - 1, bytes[k])

regmap_write(r, a, v) ==
    { [ok |-> TRUE, reg |-> Store(r, a, v)], [ok |-> FALSE, reg |-> r] }

\* Mutant: val is stored as the whole register.
RegmapUpdateWholeRegister(r, a, mask, val) ==
    { [ok |-> TRUE, reg |-> Store(r, a, val)], [ok |-> FALSE, reg |-> r] }

\* tmp = orig & ~mask; tmp |= val & mask; written when tmp differs from orig
regmap_update_bits(r, a, mask, val) ==
    { [ok |-> TRUE, reg |-> Store(r, a, Or(AndNot(r[a], mask), And(val, mask)))],
      [ok |-> FALSE, reg |-> r] }

regmap_bulk_write(r, a, bytes) ==
    { [ok |-> TRUE, reg |-> StoreSeq(r, a, bytes, Len(bytes))] }
    \cup { [ok |-> FALSE, reg |-> StoreSeq(r, a, bytes, k)] : k \in 0 .. (Len(bytes) - 1) }

\* The values a read of n registers from address a may deliver: the
\* registers' contents; an address the model does not keep reads as any of
\* the two extreme bytes.
ReadVals(r, a) == IF a \in Addrs THEN {r[a]} ELSE {0, 255}

regmap_read(r, a) ==
    { [ok |-> TRUE, val |-> v] : v \in ReadVals(r, a) } \cup { [ok |-> FALSE, val |-> 0] }

RECURSIVE ReadSeqs(_, _, _)
ReadSeqs(r, a, n) ==
    IF n = 0 THEN { <<>> }
    ELSE { Append(s, v) : s \in ReadSeqs(r, a, n - 1), v \in ReadVals(r, a + n - 1) }

regmap_bulk_read(r, a, n) ==
    { [ok |-> TRUE, val |-> s] : s \in ReadSeqs(r, a, n) } \cup { [ok |-> FALSE, val |-> <<>>] }

\* The errno a failed transaction returns (-EIO).
TransportErrors == { -5 }

\* What is logged of a transaction.
Txn(t, a, n, m, v, ok) == [t |-> t, a |-> a, n |-> n, m |-> m, v |-> v, ok |-> ok]


(***************************************************************************)
(* struct rtc_time / struct rtc_wkalrm as the drivers read and write them  *)
(***************************************************************************)
RtcTime(sec, min, hour, mday, mon, year, wday) ==
    [tm_sec |-> sec, tm_min |-> min, tm_hour |-> hour, tm_mday |-> mday,
     tm_mon |-> mon, tm_year |-> year, tm_wday |-> wday]

AlarmTime(sec, min, hour, mday, mon) ==
    [tm_sec |-> sec, tm_min |-> min, tm_hour |-> hour, tm_mday |-> mday, tm_mon |-> mon]

NoTime == RtcTime(0, 0, 0, 0, 0, 0, 0)
NoAlarm == AlarmTime(0, 0, 0, 0, 0)

\* set_time: tmp[2 ..] = buf[DT_100THS .. DT_YEARS]
EncodeTime(tm) ==
    << 0,
       bin2bcd(tm.tm_sec),
       bin2bcd(tm.tm_min),
       bin2bcd(tm.tm_hour),
       bin2bcd(tm.tm_mday),
       tm.tm_wday % 256,
       bin2bcd(tm.tm_mon + 1),
       bin2bcd(tm.tm_year % 100) >>

\* Mutant: the month is returned as the device counts it, from 1.
DecodeTimeMonthFromOne(buf) ==
    [tm_year |-> bcd2bin(buf[DT_YEARS + 1]) + 100,
     tm_wday |-> And(buf[DT_WEEKDAYS + 1], 7),
     tm_sec  |-> bcd2bin(And(buf[DT_SECS + 1], 127)),
     tm_min  |-> bcd2bin(And(buf[DT_MINUTES + 1], 127)),
     tm_hour |-> bcd2bin(buf[DT_HOURS + 1]),
     tm_mday |-> bcd2bin(buf[DT_DAYS + 1]),
     tm_mon  |-> bcd2bin(buf[DT_MONTHS + 1])]

\* Mutant: the year is returned as the device holds it, within the century.
DecodeTimeNoCentury(buf) ==
    [tm_year |-> bcd2bin(buf[DT_YEARS + 1]),
     tm_wday |-> And(buf[DT_WEEKDAYS + 1], 7),
     tm_sec  |-> bcd2bin(And(buf[DT_SECS + 1], 127)),
     tm_min  |-> bcd2bin(And(buf[DT_MINUTES + 1], 127)),
     tm_hour |-> bcd2bin(buf[DT_HOURS + 1]),
     tm_mday |-> bcd2bin(buf[DT_DAYS + 1]),
     tm_mon  |-> bcd2bin(buf[DT_MONTHS + 1]) - 1]

\* read_time: buf[DT_100THS .. DT_YEARS] is buf[1 .. 8] here
DecodeTime(buf) ==
    [tm_year |-> bcd2bin(buf[DT_YEARS + 1]) + 100,
     tm_wday |-> And(buf[DT_WEEKDAYS + 1], 7),
     tm_sec  |-> bcd2bin(And(buf[DT_SECS + 1], 127)),
     tm_min  |-> bcd2bin(And(buf[DT_MINUTES + 1], 127)),
     tm_hour |-> bcd2bin(buf[DT_HOURS + 1]),
     tm_mday |-> bcd2bin(buf[DT_DAYS + 1]),
     tm_mon  |-> bcd2bin(buf[DT_MONTHS + 1]) - 1]

\* Mutant: the month is written as the host counts it, from 0.
EncodeAlarmMonthFromZero(t) ==
    << bin2bcd(t.tm_sec),
       bin2bcd(t.tm_min),
       bin2bcd(t.tm_hour),
       bin2bcd(t.tm_mday),
       bin2bcd(t.tm_mon) >>

\* set_alarm: buf[0 .. 4]
EncodeAlarm(t) ==
    << bin2bcd(t.tm_sec),
       bin2bcd(t.tm_min),
       bin2bcd(t.tm_hour),
       bin2bcd(t.tm_mday),
       bin2bcd(t.tm_mon + 1) >>

\* read_alarm: buf[0 .. 4] is buf[1 .. 5] here
DecodeAlarm(buf) ==
    [tm_sec  |-> bcd2bin(buf[1]),
     tm_min  |-> bcd2bin(buf[2]),
     tm_hour |-> bcd2bin(buf[3]),
     tm_mday |-> bcd2bin(buf[4]),
     tm_mon  |-> bcd2bin(buf[5]) - 1]

\* _pcf85363_rtc_alarm_irq_enable: the five alarm-1 match-enable bits
alarm_flags ==
    Or(ALRM_SEC_A1E, Or(ALRM_MIN_A1E, Or(ALRM_HR_A1E, Or(ALRM_DAY_A1E, ALRM_MON_A1E))))

\* Bits 0-4 of register 0x10 and bit 4 of register 0x29: the two alarm-1 bit
\* groups of the device, and whether both are clear.
A1MatchBits == BIT(0) + BIT(1) + BIT(2) + BIT(3) + BIT(4)
A1IntBit == BIT(4)
A1FiredBit == BIT(5)

AlarmOff(r) == And(r[DT_ALARM_EN], A1MatchBits) = 0 /\ And(r[CTRL_INTA_EN], A1IntBit) = 0

(***************************************************************************)
(* Host thread                                                             *)
(***************************************************************************)
NoOp == [op |-> "none", tm |-> NoTime, alrm |-> NoAlarm, enabled |-> 0,
         offset |-> 0, bytes |-> 0, val |-> <<>>]

NoRes == [tm |-> NoTime, alrm |-> NoAlarm, enabled |-> 0, data |-> <<>>]

\* What a starting operation remembers of the one before it.
Prev ==
    IF hret = 0 /\ hop.op \in {"set_time", "set_alarm", "nvram_write"} THEN hop ELSE NoOp

\* The operation returns ret to its caller.
Return(ret) ==
    /\ hpc' = "idle"
    /\ hvia' = "none"
    /\ hret' = ret

\* The operation goes on at pc.
Goto(pc, via) ==
    /\ hpc' = pc
    /\ hvia' = via
    /\ hret' = hret

Err(o) == IF o.ok THEN {0} ELSE TransportErrors

\* pcf85363_rtc_read_time / pcf85263_rtc_read_time
ReadTime ==
    /\ hpc = "idle"
    /\ hprev' = Prev
    /\ \E o \in regmap_bulk_read(reg, DT_100THS, DT_YEARS + 1) :
        /\ hop' = [NoOp EXCEPT !.op = "read_time"]
        /\ hbus' = << Txn("bulk_read", DT_100THS, DT_YEARS + 1, 0, 0, o.ok) >>
        /\ hres' = IF o.ok THEN [NoRes EXCEPT !.tm = DecodeTime(o.val)] ELSE NoRes
        /\ \E e \in Err(o) : Return(e)
    /\ hoff' = FALSE
    /\ UNCHANGED <<reg, irqVars, envVars>>

\* pcf85363_rtc_set_time / pcf85263_rtc_set_time: stop the clock and reset
\* the prescaler in one two-byte write
SetTimeStop ==
    /\ hpc = "idle"
    /\ hprev' = Prev
    /\ \E tm \in hostTimes :
       \E o \in regmap_bulk_write(reg, CTRL_STOP_EN, << STOP_EN_STOP, RESET_CPR >>) :
        /\ hop' = [NoOp EXCEPT !.op = "set_time", !.tm = tm]
        /\ hbus' = << Txn("bulk_write", CTRL_STOP_EN, 2, 0, 0, o.ok) >>
        /\ reg' = o.reg
        /\ IF o.ok THEN Goto("time_block", "none")
                   ELSE \E e \in Err(o) : Return(e)
    /\ hres' = NoRes
    /\ hoff' = FALSE
    /\ UNCHANGED <<irqVars, envVars>>

\* set_time: the date/time block
SetTimeBlock ==
    /\ hpc = "time_block"
    /\ \E o \in regmap_bulk_write(reg, DT_100THS, EncodeTime(hop.tm)) :
        /\ hbus' = Append(hbus, Txn("bulk_write", DT_100THS, DT_YEARS + 1, 0, 0, o.ok))
        /\ reg' = o.reg
        /\ IF o.ok THEN Goto("time_resume", "none")
                   ELSE \E e \in Err(o) : Return(e)
    /\ UNCHANGED <<hop, hres, hoff, hprev, irqVars, envVars>>

\* set_time: start the clock again
SetTimeResume ==
    /\ hpc = "time_resume"
    /\ \E o \in regmap_write(reg, CTRL_STOP_EN, 0) :
        /\ hbus' = Append(hbus, Txn("write", CTRL_STOP_EN, 1, 0, 0, o.ok))
        /\ reg' = o.reg
        /\ \E e \in Err(o) : Return(e)
    /\ UNCHANGED <<hop, hres, hoff, hprev, irqVars, envVars>>

\* pcf85363_rtc_read_alarm: the five match fields
ReadAlarmFields ==
    /\ hpc = "idle"
    /\ hprev' = Prev
    /\ \E o \in regmap_bulk_read(reg, DT_SECOND_ALM1, DT_MONTH_ALM1 - DT_SECOND_ALM1 + 1) :
        /\ hop' = [NoOp EXCEPT !.op = "read_alarm"]
        /\ hbus' = << Txn("bulk_read", DT_SECOND_ALM1,
                          DT_MONTH_ALM1 - DT_SECOND_ALM1 + 1, 0, 0, o.ok) >>
        /\ hres' = IF o.ok THEN [NoRes EXCEPT !.alrm = DecodeAlarm(o.val)] ELSE NoRes
        /\ IF o.ok THEN Goto("alarm_inta", "none")
                   ELSE \E e \in Err(o) : Return(e)
    /\ hoff' = FALSE
    /\ UNCHANGED <<reg, irqVars, envVars>>

\* read_alarm: the interrupt-enable register
ReadAlarmInta ==
    /\ hpc = "alarm_inta"
    /\ \E o \in regmap_read(reg, CTRL_INTA_EN) :
        /\ hbus' = Append(hbus, Txn("read", CTRL_INTA_EN, 1, 0, 0, o.ok))
        /\ hres' = IF o.ok
                   THEN [hres EXCEPT !.enabled = IF And(o.val, INT_A1IE) # 0 THEN 1 ELSE 0]
                   ELSE hres
        /\ \E e \in Err(o) : Return(e)
    /\ UNCHANGED <<reg, hop, hoff, hprev, irqVars, envVars>>


(***************************************************************************)
(* _pcf85363_rtc_alarm_irq_enable(pcf85363, enabled), called from          *)
(*   "direct"  pcf85363_rtc_alarm_irq_enable(dev, enabled)                 *)
(*   "disable" pcf85363_rtc_set_alarm, before the fields are written       *)
(*   "final"   pcf85363_rtc_set_alarm, after the fields are written        *)
(***************************************************************************)
Enabled(via) == IF via = "disable" THEN 0 ELSE hop.enabled

\* Mutant: set_alarm goes on to the field write whatever the disable step returned.
AlarmIrqEnableReturnUnchecked(via, ret) ==
    IF via = "disable"
    THEN Goto("alarm_write", "none")
    ELSE Return(ret)

\* _pcf85363_rtc_alarm_irq_enable returns ret to its call site
AlarmIrqEnableReturn(via, ret) ==
    IF via = "disable" /\ ret = 0
    THEN Goto("alarm_write", "none")
    ELSE Return(ret)

\* Mutant: only the seconds match is switched on.
FieldsValueSecondsOnly(enabled) == IF enabled # 0 THEN ALRM_SEC_A1E ELSE 0

\* enabled ? alarm_flags : 0
FieldsValue(enabled) == IF enabled # 0 THEN alarm_flags ELSE 0

\* Mutant: the interrupt-enable bit is written inverted.
IntaValueInverted(enabled) == IF enabled # 0 THEN 0 ELSE INT_A1IE

\* enabled ? INT_A1IE : 0
IntaValue(enabled) == IF enabled # 0 THEN INT_A1IE ELSE 0

\* first transaction: the match-enable bits of DT_ALARM_EN
AlarmIrqEnableFields(via, enabled, log) ==
    \E o \in regmap_update_bits(reg, DT_ALARM_EN, alarm_flags, FieldsValue(enabled)) :
        /\ hbus' = Append(log, Txn("update", DT_ALARM_EN, 1, alarm_flags,
                                   FieldsValue(enabled), o.ok))
        /\ reg' = o.reg
        /\ IF o.ok THEN Goto("irq_inta", via)
                   ELSE \E e \in Err(o) : AlarmIrqEnableReturn(via, e)

\* second transaction: the alarm-1 interrupt-enable bit of CTRL_INTA_EN;
\* if (ret || enabled) return ret
AlarmIrqEnableInta ==
    /\ hpc = "irq_inta"
    /\ \E o \in regmap_update_bits(reg, CTRL_INTA_EN, INT_A1IE, IntaValue(Enabled(hvia))) :
        /\ hbus' = Append(hbus, Txn("update", CTRL_INTA_EN, 1, INT_A1IE,
                                    IntaValue(Enabled(hvia)), o.ok))
        /\ reg' = o.reg
        /\ hoff' = (hoff \/ AlarmOff(o.reg))
        /\ IF o.ok /\ Enabled(hvia) = 0
           THEN Goto("irq_flags", hvia)
           ELSE \E e \in Err(o) : AlarmIrqEnableReturn(hvia, e)
    /\ UNCHANGED <<hop, hres, hprev, irqVars, envVars>>

\* third transaction, when disabling: clear current flags
AlarmIrqEnableFlags ==
    /\ hpc = "irq_flags"
    /\ \E o \in regmap_update_bits(reg, CTRL_FLAGS, FLAGS_A1F, 0) :
        /\ hbus' = Append(hbus, Txn("update", CTRL_FLAGS, 1, FLAGS_A1F, 0, o.ok))
        /\ reg' = o.reg
        /\ \E e \in Err(o) : AlarmIrqEnableReturn(hvia, e)
    /\ UNCHANGED <<hop, hres, hoff, hprev, irqVars, envVars>>

\* pcf85363_rtc_alarm_irq_enable
AlarmIrqEnable ==
    /\ hpc = "idle"
    /\ hprev' = Prev
    /\ \E enabled \in {0, 1} :
        /\ hop' = [NoOp EXCEPT !.op = "alarm_irq_enable", !.enabled = enabled]
        /\ AlarmIrqEnableFields("direct", enabled, <<>>)
    /\ hoff' = (AlarmOff(reg) \/ AlarmOff(reg'))
    /\ hres' = NoRes
    /\ UNCHANGED <<irqVars, envVars>>

\* pcf85363_rtc_set_alarm: disable the alarm interrupt before changing the value
SetAlarmDisable ==
    /\ hpc = "idle"
    /\ hprev' = Prev
    /\ \E a \in hostAlarms :
        /\ hop' = [NoOp EXCEPT !.op = "set_alarm", !.alrm = a.time, !.enabled = a.enabled]
        /\ AlarmIrqEnableFields("disable", 0, <<>>)
    /\ hoff' = (AlarmOff(reg) \/ AlarmOff(reg'))
    /\ hres' = NoRes
    /\ UNCHANGED <<irqVars, envVars>>

\* Mutant: set_alarm goes on to the final enable whatever the field write returned.
SetAlarmWriteUnchecked ==
    /\ hpc = "alarm_write"
    /\ \E o \in regmap_bulk_write(reg, DT_SECOND_ALM1, EncodeAlarm(hop.alrm)) :
        /\ hbus' = Append(hbus, Txn("bulk_write", DT_SECOND_ALM1,
                                    DT_MONTH_ALM1 - DT_SECOND_ALM1 + 1, 0, 0, o.ok))
        /\ reg' = o.reg
        /\ Goto("alarm_final", "none")
    /\ UNCHANGED <<hop, hres, hoff, hprev, irqVars, envVars>>

\* set_alarm: the five match fields
SetAlarmWrite ==
    /\ hpc = "alarm_write"
    /\ \E o \in regmap_bulk_write(reg, DT_SECOND_ALM1, EncodeAlarm(hop.alrm)) :
        /\ hbus' = Append(hbus, Txn("bulk_write", DT_SECOND_ALM1,
                                    DT_MONTH_ALM1 - DT_SECOND_ALM1 + 1, 0, 0, o.ok))
        /\ reg' = o.reg
        /\ IF o.ok THEN Goto("alarm_final", "none")
                   ELSE \E e \in Err(o) : Return(e)
    /\ UNCHANGED <<hop, hres, hoff, hprev, irqVars, envVars>>

\* set_alarm: return _pcf85363_rtc_alarm_irq_enable(pcf85363, alrm->enabled)
SetAlarmFinal ==
    /\ hpc = "alarm_final"
    /\ AlarmIrqEnableFields("final", hop.enabled, hbus)
    /\ hoff' = (hoff \/ AlarmOff(reg'))
    /\ UNCHANGED <<hop, hres, hprev, irqVars, envVars>>

(***************************************************************************)
(* Scratch memory                                                          *)
(***************************************************************************)
MaxNvLen == 2

NvOffsets == {NVRAM_SIZE - 2, NVRAM_SIZE}
NvBytes == {90, 165}
NvVals == UNION { [1 .. n -> NvBytes] : n \in 1 .. MaxNvLen }
NvArgs == { [offset |-> o, val |-> v] : o \in NvOffsets, v \in NvVals }

\* Mutant: the read starts at the first byte of the bank whatever the offset.
NvramReadFromBase ==
    /\ hpc = "idle"
    /\ hprev' = Prev
    /\ \E a \in hostNv :
       \E o \in regmap_bulk_read(reg, CTRL_RAM, Len(a.val)) :
        /\ hop' = [NoOp EXCEPT !.op = "nvram_read", !.offset = a.offset,
                               !.bytes = Len(a.val)]
        /\ hbus' = << Txn("bulk_read", CTRL_RAM, Len(a.val), 0, 0, o.ok) >>
        /\ hres' = [NoRes EXCEPT !.data = o.val]
        /\ \E e \in Err(o) : Return(e)
    /\ hoff' = FALSE
    /\ UNCHANGED <<reg, irqVars, envVars>>

\* pcf85363_nvram_read
NvramRead ==
    /\ hpc = "idle"
    /\ hprev' = Prev
    /\ \E a \in hostNv :
       \E o \in regmap_bulk_read(reg, CTRL_RAM + a.offset, Len(a.val)) :
        /\ hop' = [NoOp EXCEPT !.op = "nvram_read", !.offset = a.offset,
                               !.bytes = Len(a.val)]
        /\ hbus' = << Txn("bulk_read", CTRL_RAM + a.offset, Len(a.val), 0, 0, o.ok) >>
        /\ hres' = [NoRes EXCEPT !.data = o.val]
        /\ \E e \in Err(o) : Return(e)
    /\ hoff' = FALSE
    /\ UNCHANGED <<reg, irqVars, envVars>>

\* pcf85363_nvram_write
NvramWrite ==
    /\ hpc = "idle"
    /\ hprev' = Prev
    /\ \E a \in hostNv :
       \E o \in regmap_bulk_write(reg, CTRL_RAM + a.offset, a.val) :
        /\ hop' = [NoOp EXCEPT !.op = "nvram_write", !.offset = a.offset,
                               !.bytes = Len(a.val), !.val = a.val]
        /\ hbus' = << Txn("bulk_write", CTRL_RAM + a.offset, Len(a.val), 0, 0, o.ok) >>
        /\ reg' = o.reg
        /\ \E e \in Err(o) : Return(e)
    /\ hres' = NoRes
    /\ hoff' = FALSE
    /\ UNCHANGED <<irqVars, envVars>>

(***************************************************************************)
(* Interrupt handler: pcf85363_rtc_handle_irq                              *)
(***************************************************************************)
\* err = regmap_read(CTRL_FLAGS, &flags); rtc_update_irq when FLAGS_A1F is set
HandleIrqRead ==
    /\ ipc = "idle"
    /\ \E o \in regmap_read(reg, CTRL_FLAGS) :
        /\ ibus' = << Txn("read", CTRL_FLAGS, 1, 0, 0, o.ok) >>
        /\ iflags' = IF o.ok THEN o.val ELSE iflags
        /\ IF o.ok /\ And(o.val, FLAGS_A1F) # 0
           THEN /\ ievent' = TRUE
                /\ ipc' = "clear"
                /\ iret' = iret
           ELSE /\ ievent' = FALSE
                /\ ipc' = "idle"
                /\ iret' = "IRQ_NONE"
    /\ UNCHANGED <<reg, hostVars, envVars>>

\* Mutant: the handler clears the whole status register.
HandleIrqClearAll ==
    /\ ipc = "clear"
    /\ \E o \in regmap_write(reg, CTRL_FLAGS, 0) :
        /\ ibus' = Append(ibus, Txn("write", CTRL_FLAGS, 1, 0, 0, o.ok))
        /\ reg' = o.reg
    /\ ipc' = "idle"
    /\ iret' = "IRQ_HANDLED"
    /\ UNCHANGED <<iflags, ievent, hostVars, envVars>>

\* regmap_update_bits(CTRL_FLAGS, FLAGS_A1F, 0), its result dropped
HandleIrqClear ==
    /\ ipc = "clear"
    /\ \E o \in regmap_update_bits(reg, CTRL_FLAGS, FLAGS_A1F, 0) :
        /\ ibus' = Append(ibus, Txn("update", CTRL_FLAGS, 1, FLAGS_A1F, 0, o.ok))
        /\ reg' = o.reg
    /\ ipc' = "idle"
    /\ iret' = "IRQ_HANDLED"
    /\ UNCHANGED <<iflags, ievent, hostVars, envVars>>

(***************************************************************************)
(* The device: an alarm-1 match latches FLAGS_A1F; a match needs at least  *)
(* one alarm-1 match-enable bit                                            *)
(***************************************************************************)
DeviceAlarmMatch ==
    /\ And(reg[DT_ALARM_EN], alarm_flags) # 0
    /\ And(reg[CTRL_FLAGS], FLAGS_A1F) = 0
    /\ reg' = [reg EXCEPT ![CTRL_FLAGS] = Or(@, FLAGS_A1F)]
    /\ UNCHANGED <<hostVars, irqVars, envVars>>


(***************************************************************************)
(* Initial states and specifications                                       *)
(***************************************************************************)
\* The device after power-on: 2000-01-01 00:00:00 with the oscillator-stop
\* flag (bit 7 of the seconds register) set, everything else zero.
ResetRegs ==
    [a \in Addrs |->
        CASE a = DT_SECS -> 128
          [] a = DT_DAYS -> 1
          [] a = DT_WEEKDAYS -> 6
          [] a = DT_MONTHS -> 1
          [] OTHER -> 0]

WithRegs(r, en, inta, flags, stop) ==
    [r EXCEPT ![DT_ALARM_EN] = en, ![CTRL_INTA_EN] = inta,
              ![CTRL_FLAGS] = flags, ![CTRL_STOP_EN] = stop]

InitWith(regs, times, alarms, nv) ==
    /\ reg \in regs
    /\ hostTimes \in times
    /\ hostAlarms \in alarms
    /\ hostNv = nv
    /\ hpc = "idle"
    /\ hvia = "none"
    /\ hop = NoOp
    /\ hret = 0
    /\ hres = NoRes
    /\ hbus = <<>>
    /\ hoff = FALSE
    /\ hprev = NoOp
    /\ ipc = "idle"
    /\ iflags = 0
    /\ iret = "IRQ_NONE"
    /\ ievent = FALSE
    /\ ibus = <<>>

\* Values of the alarm-enable and interrupt-enable registers the device may
\* hold when the driver starts: alarm 1 off, on, on with every other bit of
\* both registers set, off with every other bit set, and the two groups
\* disagreeing; and values of the status register with the alarm-1 flag
\* clear or set, alone or among all the other flags.
AlarmEnInit == { <<0, 0>>, <<31, 16>>, <<255, 255>>, <<229, 239>>, <<31, 0>>, <<4, 16>> }
FlagsInit == {0, 32, 223, 255}

AlarmRegs ==
    { WithRegs(ResetRegs, e[1], e[2], flags, 0) : e \in AlarmEnInit, flags \in FlagsInit }

TimeA == RtcTime(0, 5, 9, 18, 11, 123, 1)
TimeB == RtcTime(59, 59, 23, 31, 0, 199, 6)

AlarmA == AlarmTime(0, 30, 7, 1, 0)
AlarmB == AlarmTime(59, 59, 23, 31, 11)

WkAlarms(ts) == { [time |-> t, enabled |-> e] : t \in ts, e \in {0, 1} }

\* Valid wall-clock times (tm_year counts from 1900, tm_mon from 0).
DaysIn(mon, year) ==
    IF mon = 1 THEN (IF (year + 1900) % 4 = 0 THEN 29 ELSE 28)
    ELSE IF mon \in {3, 5, 8, 10} THEN 30 ELSE 31

\* The corners of every field together, and every value of each field with
\* the other fields at TimeA.
ValidTimes ==
    { t \in { RtcTime(sec, min, hour, mday, mon, year, wday) :
                sec \in {0, 59}, min \in {0, 59}, hour \in {0, 23},
                mday \in {1, 28, 29, 30, 31}, mon \in {0, 1, 8, 9, 11},
                year \in {100, 104, 199}, wday \in {0, 6} } :
        t.tm_mday <= DaysIn(t.tm_mon, t.tm_year) }
    \cup { [TimeA EXCEPT !.tm_sec = v] : v \in 0 .. 59 }
    \cup { [TimeA EXCEPT !.tm_min = v] : v \in 0 .. 59 }
    \cup { [TimeA EXCEPT !.tm_hour = v] : v \in 0 .. 23 }
    \cup { [TimeA EXCEPT !.tm_mday = v] : v \in 1 .. 31 }
    \cup { [TimeA EXCEPT !.tm_mon = v, !.tm_mday = 28] : v \in 0 .. 11 }
    \cup { [TimeA EXCEPT !.tm_year = v] : v \in 100 .. 199 }
    \cup { [TimeA EXCEPT !.tm_wday = v] : v \in 0 .. 6 }

ValidAlarms ==
    { AlarmTime(sec, min, hour, mday, mon) :
        sec \in {0, 59}, min \in {0, 59}, hour \in {0, 23},
        mday \in {1, 31}, mon \in {0, 8, 9, 11} }
    \cup { [AlarmA EXCEPT !.tm_sec = v] : v \in 0 .. 59 }
    \cup { [AlarmA EXCEPT !.tm_min = v] : v \in 0 .. 59 }
    \cup { [AlarmA EXCEPT !.tm_hour = v] : v \in 0 .. 23 }
    \cup { [AlarmA EXCEPT !.tm_mday = v] : v \in 1 .. 31 }
    \cup { [AlarmA EXCEPT !.tm_mon = v] : v \in 0 .. 11 }

TimeNext ==
    \/ ReadTime
    \/ SetTimeStop
    \/ SetTimeBlock
    \/ SetTimeResume

AlarmNext ==
    \/ ReadAlarmFields
    \/ ReadAlarmInta
    \/ AlarmIrqEnable
    \/ AlarmIrqEnableInta
    \/ AlarmIrqEnableFlags
    \/ SetAlarmDisable
    \/ SetAlarmWrite
    \/ SetAlarmFinal
    \/ HandleIrqRead
    \/ HandleIrqClear
    \/ DeviceAlarmMatch

NvramNext ==
    \/ NvramRead
    \/ NvramWrite

Next ==
    \/ TimeNext
    \/ AlarmNext
    \/ NvramNext

\* The alarm operations of the host thread alone.
AlarmHostNext ==
    \/ ReadAlarmFields
    \/ ReadAlarmInta
    \/ SetAlarmDisable
    \/ AlarmIrqEnableInta
    \/ AlarmIrqEnableFlags
    \/ SetAlarmWrite
    \/ SetAlarmFinal

Init ==
    InitWith({ WithRegs(ResetRegs, 31, 16, 32, 0) },
             { {TimeA} }, { { [time |-> AlarmA, enabled |-> 1] } },
             { [offset |-> NVRAM_SIZE - 1, val |-> v] : v \in [1 .. MaxNvLen -> {165}] })

Spec == Init /\ [][Next]_vars

\* The clock operations alone, from a running or a stopped clock.
TimeInit ==
    InitWith({ WithRegs(ResetRegs, 0, 0, 0, stop) : stop \in {0, 1} },
             { {TimeA, TimeB} }, { {} }, {})

SpecTime == TimeInit /\ [][TimeNext]_vars

\* One wall-clock time per behaviour, over all of ValidTimes.
TimeRoundTripInit ==
    InitWith({ ResetRegs }, { {t} : t \in ValidTimes }, { {} }, {})

SpecTimeRoundTrip == TimeRoundTripInit /\ [][TimeNext]_vars

\* The alarm operations, the interrupt handler and the device's alarm latch.
AlarmInit ==
    InitWith(AlarmRegs, { {} }, { WkAlarms({AlarmA}) }, {})

SpecAlarm == AlarmInit /\ [][AlarmNext]_vars

\* The interrupt handler against alarm_irq_enable and the device's alarm
\* latch, from every value of the status register.
IrqNext ==
    \/ AlarmIrqEnable
    \/ AlarmIrqEnableInta
    \/ AlarmIrqEnableFlags
    \/ HandleIrqRead
    \/ HandleIrqClear
    \/ DeviceAlarmMatch

IrqInit ==
    InitWith({ WithRegs(ResetRegs, 31, 16, flags, 0) : flags \in 0 .. 255 }, { {} }, { {} }, {})

SpecIrq == IrqInit /\ [][IrqNext]_vars

\* One alarm per behaviour, over all of ValidAlarms and both values of enabled.
AlarmRoundTripInit ==
    InitWith({ WithRegs(ResetRegs, 0, 0, 0, 0), WithRegs(ResetRegs, 255, 255, 255, 0) },
             { {} }, { {a} : a \in WkAlarms(ValidAlarms) }, {})

SpecAlarmRoundTrip == AlarmRoundTripInit /\ [][AlarmHostNext]_vars

\* The scratch memory operations alone.
NvramInit == InitWith({ ResetRegs }, { {} }, { {} }, NvArgs)

SpecNvram == NvramInit /\ [][NvramNext]_vars

\* The read operations alone, over every byte in each one of the registers
\* read_time and read_alarm decode as two decimal digits.
ReadNext ==
    \/ ReadTime
    \/ ReadAlarmFields
    \/ ReadAlarmInta

BcdRegs ==
    {DT_SECS, DT_MINUTES, DT_HOURS, DT_DAYS, DT_MONTHS, DT_YEARS}
    \cup (DT_SECOND_ALM1 .. DT_MONTH_ALM1)

ReadInit ==
    InitWith({ [ResetRegs EXCEPT ![a] = v] : a \in BcdRegs, v \in 0 .. 255 },
             { {} }, { {} }, {})

SpecRead == ReadInit /\ [][ReadNext]_vars

\* set_alarm and alarm_irq_enable with the interrupt handler and the
\* device's alarm latch, from an alarm that is off in both bit groups, with
\* the other bits of both registers all clear or all set.
AlarmSetNext ==
    \/ AlarmIrqEnable
    \/ AlarmIrqEnableInta
    \/ AlarmIrqEnableFlags
    \/ SetAlarmDisable
    \/ SetAlarmWrite
    \/ SetAlarmFinal
    \/ HandleIrqRead
    \/ HandleIrqClear
    \/ DeviceAlarmMatch

AlarmSetInit ==
    InitWith({ WithRegs(ResetRegs, e[1], e[2], flags, 0) :
                 e \in { <<0, 0>>, <<255 - alarm_flags, 255 - INT_A1IE>> }, flags \in FlagsInit },
             { {} }, { WkAlarms({AlarmA}) }, {})

SpecAlarmSet == AlarmSetInit /\ [][AlarmSetNext]_vars

\* The scratch memory operations among set_time, alarm_irq_enable and the
\* interrupt handler, over the in-bounds arguments that start with 0x5A.
NvramAmongNext ==
    \/ NvramNext
    \/ SetTimeStop
    \/ SetTimeBlock
    \/ SetTimeResume
    \/ AlarmIrqEnable
    \/ AlarmIrqEnableInta
    \/ AlarmIrqEnableFlags
    \/ HandleIrqRead
    \/ HandleIrqClear

NvramAmongInit ==
    InitWith({ WithRegs(ResetRegs, 31, 16, 32, 0) }, { {TimeA} }, { {} },
             { a \in NvArgs : a.offset + Len(a.val) <= NVRAM_SIZE /\ a.val[1] = 90 })

SpecNvramAmong == NvramAmongInit /\ [][NvramAmongNext]_vars


(***************************************************************************)
(* Properties                                                              *)
(***************************************************************************)
Last(log) == log[Len(log)]

\* The host thread, resp. the interrupt handler, takes a step.
HostStep == hostVars' # hostVars
IrqStep == irqVars' # irqVars

\* Some bit of mask is set in new and clear in old; set in old and clear in new.
Rises(old, new, mask) == AndNot(And(new, mask), old) # 0
Falls(old, new, mask) == AndNot(And(old, mask), new) # 0

UpdateOf(a, mask, v, ok) == Txn("update", a, 1, mask, v, ok)
FieldWriteOf(ok) == Txn("bulk_write", 8, 5, 0, 0, ok)

\* The three transactions that switch the alarm off, all successful.
DisableSucceeded(log) ==
    /\ Len(log) >= 3
    /\ log[1] = UpdateOf(16, A1MatchBits, 0, TRUE)
    /\ log[2] = UpdateOf(41, A1IntBit, 0, TRUE)
    /\ log[3] = UpdateOf(43, A1FiredBit, 0, TRUE)

\* C1: in every set_alarm call the bulk write of the match fields 0x08-0x0C
\* is issued only after the three disable transactions succeeded and with
\* both alarm-1 bit groups clear in the device; a bit of either group is
\* set by the call only after the field write succeeded and only when
\* enabled is true.
C1_DisableBeforeFieldWrite ==
    [][ /\ (HostStep /\ hbus' # <<>> /\ Last(hbus') \in {FieldWriteOf(TRUE), FieldWriteOf(FALSE)})
            => (AlarmOff(reg) /\ DisableSucceeded(hbus) /\ Len(hbus) = 3)
        /\ (HostStep /\ hop'.op = "set_alarm"
              /\ (\/ Rises(reg[DT_ALARM_EN], reg'[DT_ALARM_EN], A1MatchBits)
                  \/ Rises(reg[CTRL_INTA_EN], reg'[CTRL_INTA_EN], A1IntBit)))
            => (hop'.enabled = 1 /\ Len(hbus') > 4 /\ hbus'[4] = FieldWriteOf(TRUE))
      ]_vars

\* C1 witness: a set_alarm with enabled true has gone through disable, field
\* write and enable on an alarm that was on before.
C1_Witness ==
    /\ hpc = "idle" /\ hop.op = "set_alarm" /\ hop.enabled = 1 /\ hret = 0
    /\ Len(hbus) = 6
    /\ And(reg[DT_ALARM_EN], A1MatchBits) = A1MatchBits
    /\ And(reg[CTRL_INTA_EN], A1IntBit) = A1IntBit
    /\ hoff

\* The transactions of _pcf85363_rtc_alarm_irq_enable(enabled) in order.
EnableSequence(enabled) ==
    << UpdateOf(16, A1MatchBits, IF enabled = 1 THEN A1MatchBits ELSE 0, TRUE),
       UpdateOf(41, A1IntBit, IF enabled = 1 THEN A1IntBit ELSE 0, TRUE) >>
    \o (IF enabled = 1 THEN <<>> ELSE << UpdateOf(43, A1FiredBit, 0, TRUE) >>)

\* log is a prefix of full whose last transaction may have failed.
FollowsUpTo(log, full) ==
    /\ Len(log) <= Len(full)
    /\ \A i \in 1 .. Len(log) :
          \/ log[i] = full[i]
          \/ i = Len(log) /\ log[i] = [full[i] EXCEPT !.ok = FALSE]

\* C2 as stated: alarm_irq_enable(true) that succeeds has first forced the
\* alarm fully off, so it has passed through a state with both alarm-1 bit
\* groups clear.
C2_Original_OffBeforeOn ==
    (hpc = "idle" /\ hop.op = "alarm_irq_enable" /\ hop.enabled = 1 /\ hret = 0) => hoff

\* C2 amended: alarm_irq_enable(enabled) issues its transactions in one
\* order, the match-enable bits of 0x10, then the interrupt-enable bit of
\* 0x29, each written straight to its target value, then, only when enabled
\* is false, the clearing of the alarm-1 flag; it stops at the first failure
\* and, when enabled is true, never clears a bit of either group.
C2_TargetWrittenInOrder ==
    /\ [](hop.op = "alarm_irq_enable" =>
            /\ FollowsUpTo(hbus, EnableSequence(hop.enabled))
            /\ (hpc = "idle" /\ hret = 0) => hbus = EnableSequence(hop.enabled))
    /\ [][ (HostStep /\ hop'.op = "alarm_irq_enable" /\ hop'.enabled = 1) =>
             /\ ~Falls(reg[DT_ALARM_EN], reg'[DT_ALARM_EN], A1MatchBits)
             /\ ~Falls(reg[CTRL_INTA_EN], reg'[CTRL_INTA_EN], A1IntBit) ]_vars

\* C2 witness: alarm_irq_enable(true) has succeeded without the alarm ever
\* having been off during the call.
C2_Witness ==
    /\ hpc = "idle" /\ hop.op = "alarm_irq_enable" /\ hop.enabled = 1 /\ hret = 0
    /\ ~hoff
    /\ ~AlarmOff(reg)

\* C3: after every successful alarm_irq_enable(false) the alarm-1 fired bit
\* is clear; alarm_irq_enable(true), called directly or as the last stage of
\* set_alarm, issues no transaction on the status register and no step of
\* it changes that register.
C3_DisableClearsEnableKeeps ==
    /\ []((hpc = "idle" /\ hop.op = "alarm_irq_enable" /\ hop.enabled = 0 /\ hret = 0)
            => And(reg[CTRL_FLAGS], A1FiredBit) = 0)
    /\ []((hop.op = "alarm_irq_enable" /\ hop.enabled = 1)
            => \A i \in 1 .. Len(hbus) : hbus[i].a # 43)
    /\ []((hop.op = "set_alarm" /\ hop.enabled = 1)
            => \A i \in 5 .. Len(hbus) : hbus[i].a # 43)
    /\ [][ (HostStep /\ hop'.enabled = 1
              /\ (hop'.op = "alarm_irq_enable" \/ (hop'.op = "set_alarm" /\ Len(hbus') > 4)))
            => reg'[CTRL_FLAGS] = reg[CTRL_FLAGS] ]_vars

\* C3 witness: a successful alarm_irq_enable(false) has cleared the alarm-1
\* flag out of a status register with every flag set.
C3_Witness ==
    /\ hpc = "idle" /\ hop.op = "alarm_irq_enable" /\ hop.enabled = 0 /\ hret = 0
    /\ hbus = EnableSequence(0)
    /\ reg[CTRL_FLAGS] = 255 - A1FiredBit

\* C4: the interrupt handler issues a write to the status register only
\* after its one read of that register succeeded and showed the alarm-1 bit
\* set; a step of the handler changes no register but the status register,
\* and there nothing but bit 5, which it clears.
C4_HandlerClearsOnlyObservedA1F ==
    /\ [](/\ Len(ibus) <= 2
          /\ \A i \in 1 .. Len(ibus) :
                /\ ibus[i].t = "read" <=> i = 1
                /\ i = 2 => (ibus[1].ok /\ And(iflags, A1FiredBit) # 0
                              /\ ibus[2] = UpdateOf(43, A1FiredBit, 0, ibus[2].ok)))
    /\ [][ IrqStep =>
             \/ reg' = reg
             \/ /\ Len(ibus') = 2
                /\ reg' = [reg EXCEPT ![CTRL_FLAGS] = AndNot(reg[CTRL_FLAGS], A1FiredBit)] ]_vars

\* C4 witness: the handler has seen the alarm-1 flag among all the others
\* and cleared it.
C4_Witness ==
    /\ ipc = "idle" /\ iret = "IRQ_HANDLED"
    /\ iflags = 255
    /\ Len(ibus) = 2 /\ ibus[2].ok
    /\ reg[CTRL_FLAGS] = 255 - A1FiredBit


TimeBlockWriteOf(ok) == Txn("bulk_write", 0, 8, 0, 0, ok)

\* The three transactions of set_time, all successful.
SetTimeSequence ==
    << Txn("bulk_write", 46, 2, 0, 0, TRUE), TimeBlockWriteOf(TRUE), Txn("write", 46, 1, 0, 0, TRUE) >>

\* Two decimal digits packed one per nibble.
BcdOf(v) == (v \div 10) * 16 + (v % 10)

\* Registers 0x00-0x07 for a wall-clock time: hundredths zero, month
\* counted from 1, year within the century.
TimeBytes(tm) ==
    << 0, BcdOf(tm.tm_sec), BcdOf(tm.tm_min), BcdOf(tm.tm_hour), BcdOf(tm.tm_mday),
       tm.tm_wday, BcdOf(tm.tm_mon + 1), BcdOf(tm.tm_year % 100) >>

\* C5: set_time issues, in this order and stopping at the first failure, the
\* write that sets the stop bit of 0x2E and puts 0xA4 into 0x2F, the one
\* bulk write of the date/time block, and the write that clears the stop
\* bit; the date/time registers change in that bulk write only and with the
\* stop bit set; the stop bit is cleared only after that write succeeded;
\* after a successful set_time the stop bit is clear and registers
\* 0x00-0x07 hold the encoded time, hundredths zero.
C5_StopWriteResume ==
    /\ [](hop.op = "set_time" => FollowsUpTo(hbus, SetTimeSequence))
    /\ []((hop.op = "set_time" /\ hpc = "idle" /\ hret = 0) =>
            /\ And(reg[CTRL_STOP_EN], 1) = 0
            /\ \A a \in 0 .. 7 : reg[a] = TimeBytes(hop.tm)[a + 1])
    /\ [][ (HostStep /\ hop'.op = "set_time") =>
             /\ (Last(hbus') \in {TimeBlockWriteOf(TRUE), TimeBlockWriteOf(FALSE)})
                   => (And(reg[CTRL_STOP_EN], 1) = 1 /\ reg[CTRL_RESETS] = 164)
             /\ (\E a \in 0 .. 7 : reg'[a] # reg[a])
                   => (/\ Len(hbus') = 2
                       /\ Last(hbus') \in {TimeBlockWriteOf(TRUE), TimeBlockWriteOf(FALSE)}
                       /\ And(reg[CTRL_STOP_EN], 1) = 1)
             /\ Falls(reg[CTRL_STOP_EN], reg'[CTRL_STOP_EN], 1)
                   => (Len(hbus') = 3 /\ hbus'[2] = TimeBlockWriteOf(TRUE)) ]_vars

\* C5 witness: a set_time of 2099-01-31 23:59:59 has succeeded and the
\* clock runs again from that value.
C5_Witness ==
    /\ hpc = "idle" /\ hop.op = "set_time" /\ hret = 0
    /\ hop.tm = TimeB
    /\ hbus = SetTimeSequence
    /\ reg[DT_SECS] = 89 /\ reg[DT_YEARS] = 153
    /\ reg[CTRL_STOP_EN] = 0

\* C6: a set_time that fails after the clock was halted leaves the clock
\* halted and returns an error that is not a plain transport error.
C6_StoppedClockIsDistinguished ==
    (hpc = "idle" /\ hop.op = "set_time" /\ hret # 0 /\ Len(hbus) >= 2)
        => (And(reg[CTRL_STOP_EN], 1) = 1 /\ hret \notin TransportErrors)

\* C7: a successful read_time that directly follows a successful
\* set_time(t), t a valid wall-clock time, returns t in every field.
C7_TimeRoundTrip ==
    (hpc = "idle" /\ hop.op = "read_time" /\ hret = 0 /\ hprev.op = "set_time")
        => hres.tm = hprev.tm

\* C7 witness: 2004-02-29 23:59:59, weekday 6, has been set and read back.
C7_Witness ==
    /\ hpc = "idle" /\ hop.op = "read_time" /\ hret = 0 /\ hprev.op = "set_time"
    /\ hprev.tm = RtcTime(59, 59, 23, 29, 1, 104, 6)
    /\ hres.tm.tm_mon = 1 /\ hres.tm.tm_year = 104

\* C8: a successful read_alarm that directly follows a successful
\* set_alarm(fields, enabled), fields valid, returns the same five fields
\* and the same enabled.
C8_AlarmRoundTrip ==
    (hpc = "idle" /\ hop.op = "read_alarm" /\ hret = 0 /\ hprev.op = "set_alarm")
        => (hres.alrm = hprev.alrm /\ hres.enabled = hprev.enabled)

\* C8 witness: the alarm 31 December 23:59:59, enabled, has been set and
\* read back on a device whose alarm was off.
C8_Witness ==
    /\ hpc = "idle" /\ hop.op = "read_alarm" /\ hret = 0 /\ hprev.op = "set_alarm"
    /\ hprev.alrm = AlarmTime(59, 59, 23, 31, 11) /\ hprev.enabled = 1
    /\ hres.enabled = 1
    /\ reg[DT_ALARM_EN] = A1MatchBits

\* C9: no transaction of the interrupt handler is performed while set_alarm
\* or alarm_irq_enable is between its first and its last transaction, and
\* no transaction of these is performed between the handler's status read
\* and its flag-clearing write.
C9_AlarmAccessSerialized ==
    [][ /\ IrqStep => ~(hpc # "idle" /\ hop.op \in {"set_alarm", "alarm_irq_enable"})
        /\ (HostStep /\ hop'.op \in {"set_alarm", "alarm_irq_enable"}) => ipc # "clear" ]_vars

\* C10: an nvram operation with offset + length beyond the bank capacity
\* issues no transaction and returns an error that is neither success nor a
\* transport error; no nvram transaction reaches outside 0x40 .. 0x7F.
C10_NvramOutOfBoundsRejected ==
    /\ (hop.op \in {"nvram_read", "nvram_write"} /\ hop.offset + hop.bytes > 64)
          => (hbus = <<>> /\ hret # 0 /\ hret \notin TransportErrors)
    /\ hop.op \in {"nvram_read", "nvram_write"}
          => \A i \in 1 .. Len(hbus) : hbus[i].a >= 64 /\ hbus[i].a + hbus[i].n <= 128

\* Both nibbles of b are decimal digits.
ValidBcd(b) == b % 16 <= 9 /\ b \div 16 <= 9

\* C11: read_time, resp. read_alarm, returns success only when every
\* register it decodes as two decimal digits holds decimal digits in both
\* nibbles, bit 7 of the seconds and minutes registers left aside.
C11_CorruptByteFailsRead ==
    /\ (hpc = "idle" /\ hop.op = "read_time" /\ hret = 0) =>
          /\ \A a \in {3, 4, 6, 7} : ValidBcd(reg[a])
          /\ \A a \in {1, 2} : ValidBcd(reg[a] % 128)
    /\ (hpc = "idle" /\ hop.op = "read_alarm" /\ hret = 0) =>
          \A a \in 8 .. 12 : ValidBcd(reg[a])

\* C12: when the interrupt handler's read of the status register fails, the
\* handler returns a result that is neither of the two it returns after a
\* successful read, raises no alarm event and issues no write.
C12_FailedStatusReadIsReported ==
    (ipc = "idle" /\ ibus # <<>> /\ ~ibus[1].ok)
        => (iret \notin {"IRQ_NONE", "IRQ_HANDLED"} /\ ~ievent /\ Len(ibus) = 1)

\* Only the last transaction of log may have failed.
StopsAtFailure(log) == \A i \in 1 .. Len(log) : ~log[i].ok => i = Len(log)

\* C13: in every operation a failed transaction is the last one the
\* operation issues, and the operation then returns an error: the host
\* operations a nonzero result, the interrupt handler a result other than
\* the two it returns when every transaction succeeded.
C13_NoErrorSwallowedOrRetried ==
    /\ StopsAtFailure(hbus)
    /\ StopsAtFailure(ibus)
    /\ (hpc = "idle" /\ hbus # <<>> /\ ~Last(hbus).ok) => hret # 0
    /\ (ipc = "idle" /\ ibus # <<>> /\ ~Last(ibus).ok) => iret \notin {"IRQ_NONE", "IRQ_HANDLED"}

\* The n bytes of the scratch memory from offset on.
Bank(r, offset, n) == [i \in 1 .. n |-> r[64 + offset + i - 1]]

\* C14: a successful in-bounds nvram_write(offset, bytes) leaves bytes in the
\* bank at offset; a successful in-bounds nvram_read(offset, n) returns the n
\* bytes the bank holds at offset, so directly after that write it returns
\* bytes; and no step other than a transaction of nvram_write changes a
\* byte of the bank, and that one none outside the range it was given.
C14_NvramRoundTrip ==
    /\ []((hpc = "idle" /\ hop.op = "nvram_write" /\ hret = 0 /\ hop.offset + hop.bytes <= 64)
            => Bank(reg, hop.offset, hop.bytes) = hop.val)
    /\ []((hpc = "idle" /\ hop.op = "nvram_read" /\ hret = 0 /\ hop.offset + hop.bytes <= 64)
            => /\ hres.data = Bank(reg, hop.offset, hop.bytes)
               /\ (hprev.op = "nvram_write" /\ hprev.offset = hop.offset
                     /\ hprev.bytes = hop.bytes) => hres.data = hprev.val)
    /\ [][ (\E a \in 64 .. 127 : reg'[a] # reg[a]) =>
             /\ hpc = "idle" /\ hop'.op = "nvram_write" /\ irqVars' = irqVars
             /\ \A a \in 64 .. 127 :
                   reg'[a] # reg[a] => a - 64 \in hop'.offset .. (hop'.offset + hop'.bytes - 1) ]_vars

\* C14 witness: two bytes written at offset 62 have been read back, in a
\* behaviour where set_time has rewritten the clock, alarm_irq_enable has
\* switched the alarm off and the interrupt handler has cleared the alarm-1
\* flag.
C14_Witness ==
    /\ hpc = "idle" /\ hop.op = "nvram_read" /\ hret = 0
    /\ hprev.op = "nvram_write" /\ hprev.offset = 62 /\ hprev.val = <<90, 165>>
    /\ hop.offset = 62 /\ hres.data = <<90, 165>>
    /\ reg[7] = 35 /\ reg[16] = 0 /\ reg[41] = 0
    /\ iret = "IRQ_HANDLED"

\* The two decimal digits of b as a number.
DigitsOf(b) == (b \div 16) * 10 + (b % 16)

\* C15 as stated: for every year register holding two decimal digits, the
\* year a successful read_time returns is the two-digit value itself.
C15_Original_YearWithoutOffset ==
    (hpc = "idle" /\ hop.op = "read_time" /\ hret = 0 /\ ValidBcd(reg[7]))
        => hres.tm.tm_year = DigitsOf(reg[7])

\* C15 amended: for every year register holding two decimal digits, the
\* year a successful read_time returns is the two-digit value plus 100, a
\* count of years since 1900 within 100 .. 199.
C15_YearSince1900 ==
    (hpc = "idle" /\ hop.op = "read_time" /\ hret = 0 /\ ValidBcd(reg[7]))
        => (hres.tm.tm_year = DigitsOf(reg[7]) + 100 /\ hres.tm.tm_year \in 100 .. 199)

\* C15 witness: the year register 0x99 has been read as 199.
C15_Witness ==
    /\ hpc = "idle" /\ hop.op = "read_time" /\ hret = 0
    /\ reg[7] = 153
    /\ hres.tm.tm_year = 199

\* C16: a set_time whose write of the stop bit and the prescaler reset fails
\* returns a transport error with the stop bit as it was before the call
\* and with registers 0x00-0x07 as they were.
C16_EarlyFailureLeavesClockRunning ==
    [][ (/\ hpc = "idle" /\ hpc' = "idle" /\ irqVars' = irqVars
         /\ hop'.op = "set_time" /\ Len(hbus') = 1 /\ ~hbus'[1].ok)
          => /\ hret' \in TransportErrors
             /\ reg'[46] % 2 = reg[46] % 2
             /\ \A a \in 0 .. 7 : reg'[a] = reg[a] ]_vars

\* C17: a set_alarm whose bulk write of the match fields failed has issued
\* nothing after it and has returned the transport error, and on return the
\* five alarm-1 match-enable bits of 0x10 and the alarm-1 interrupt-enable
\* bit of 0x29 are clear.
C17_FailedFieldWriteLeavesAlarmOff ==
    (hpc = "idle" /\ hop.op = "set_alarm" /\ Len(hbus) >= 4 /\ ~hbus[4].ok)
        => /\ hbus[4] = FieldWriteOf(FALSE)
           /\ Len(hbus) = 4
           /\ hret \in TransportErrors
           /\ reg[16] % 32 = 0
           /\ (reg[41] \div 16) % 2 = 0

\* C17 witness: a set_alarm asked to enable the alarm has failed in the
\* field write after the seconds and minutes were stored, on a device whose
\* other enable bits are all set.
C17_Witness ==
    /\ hpc = "idle" /\ hop.op = "set_alarm" /\ hop.enabled = 1 /\ hret = -5
    /\ Len(hbus) = 4 /\ ~hbus[4].ok
    /\ reg[9] = 48 /\ reg[10] = 0
    /\ reg[16] = 224 /\ reg[41] = 239

\* C18: the device latches no alarm-1 flag while the interrupt handler is
\* between its status read and its flag-clearing write, the write that
\* would clear the newly latched flag unseen; and the handler raises an
\* alarm event only on a status register whose alarm-1 flag is set at that
\* moment.
C18_NoAlarmEventLostOrDuplicated ==
    [][ /\ (hostVars' = hostVars /\ irqVars' = irqVars
              /\ Rises(reg[43], reg'[43], A1FiredBit)) => ipc # "clear"
        /\ (ipc = "idle" /\ ipc' = "clear") => (ievent' /\ (reg[43] \div 32) % 2 = 1) ]_vars

\* C19: started with both alarm-1 bit groups clear, whenever the host is in
\* no operation and the latest set_alarm or alarm_irq_enable, if there was
\* one, returned success (as it has when every call so far did), the five
\* match-enable bits of 0x10 are all set or all clear, and all set exactly
\* when the interrupt-enable bit of 0x29 is set.
C19_BitGroupsAgree ==
    (hpc = "idle" /\ hret = 0 /\ hop.op \in {"none", "set_alarm", "alarm_irq_enable"})
        => /\ reg[16] % 32 \in {0, 31}
           /\ reg[16] % 32 = 31 <=> (reg[41] \div 16) % 2 = 1

\* C19 witness: after a successful set_alarm, a successful
\* alarm_irq_enable(true) has left both groups set.
C19_Witness ==
    /\ hpc = "idle" /\ hret = 0 /\ hop.op = "alarm_irq_enable" /\ hop.enabled = 1
    /\ hprev.op = "set_alarm" /\ hprev.enabled = 0
    /\ reg[16] % 32 = 31 /\ (reg[41] \div 16) % 2 = 1

\* C20: no step of set_alarm or alarm_irq_enable, successful or failing, nor
\* of the interrupt handler or the device's alarm latch beside them, changes
\* bits 5-7 of 0x10, a bit of 0x29 other than bit 4, a bit of 0x2B other
\* than bit 5, the alarm-2 registers 0x0D-0x0F or the date/time registers
\* 0x00-0x07.
C20_OnlyAlarm1StateTouched ==
    [][ /\ reg'[16] \div 32 = reg[16] \div 32
        /\ reg'[41] \div 32 = reg[41] \div 32
        /\ reg'[41] % 16 = reg[41] % 16
        /\ reg'[43] \div 64 = reg[43] \div 64
        /\ reg'[43] % 32 = reg[43] % 32
        /\ \A a \in (0 .. 7) \cup (13 .. 15) : reg'[a] = reg[a] ]_vars

\* C20 witness: a set_alarm with enabled true has succeeded on a device
\* whose other enable bits and other flags are all set, and they still are.
C20_Witness ==
    /\ hpc = "idle" /\ hop.op = "set_alarm" /\ hop.enabled = 1 /\ hret = 0
    /\ Len(hbus) = 6
    /\ reg[16] = 255 /\ reg[41] = 255
    /\ reg[43] = 223
    /\ reg[8] = 0 /\ reg[9] = 48 /\ reg[12] = 1

====
